---- MODULE Spec2Model ----
(***************************************************************************)
(* News aggregator: main.py (HTTP endpoint) and news.py (NewsAggregator).  *)
(* One call of get_latest_news: the limit clamps, the four adapter tasks   *)
(* run by asyncio.gather, the grouping by source label, the guarantee and  *)
(* fill passes, the final sort on published_at and the truncation.         *)
(***************************************************************************)
EXTENDS Integers, Sequences, FiniteSets

VARIABLES
    entry,            \* which get_latest_news the caller invoked
    arg,              \* the caller's limit argument
    pc,               \* position of the coordinating coroutine
    limit,            \* news.py's local `limit` after line 149
    per_source_limit, \* news.py line 152
    outcome,          \* per adapter task: "pending", "ok" or "caught"
    env,              \* per adapter: what its provider delivered to it
    fetched,          \* per adapter: the list the adapter returned
    results,          \* the list asyncio.gather resolves to
    news_by_source,   \* dict of line 163, as <<key, value>> pairs in insertion order
    all_news,         \* accumulator of line 171
    ret,              \* value returned by get_latest_news
    overtaken         \* history: some task completed before a task listed ahead of it

vars == <<entry, arg, pc, limit, per_source_limit, outcome, env, fetched,
          results, news_by_source, all_news, ret, overtaken>>

-----------------------------------------------------------------------------
(* Bounds of the model *)

\* instants are noon of 1..MaxDay January 2024
MaxDay == 5
\* size of a short provider response
SmallCount == 3
\* size of a long provider response
BigCount == 10
\* number of entries of a long RSS feed
BigFeed == 11

\* limits the caller may pass: below both floors, the default, inside the
\* aggregator's range, above the aggregator's ceiling
Limits == {5, 20, 27, 40}

Days == 1..MaxDay
Counts == {0, SmallCount, BigCount}
FeedCounts == {0, SmallCount, BigFeed}

-----------------------------------------------------------------------------
(* Program constants *)

MIN_PER_SOURCE == 5
AggregatorFloor == 20
AggregatorCeiling == 30
EndpointFloor == 20
EndpointCeiling == 50
SourceDivisor == 4
OverFetch == 5

Min(a, b) == IF a < b THEN a ELSE b
Max(a, b) == IF a > b THEN a ELSE b

\* the order of the tasks list
Adapters == <<"newsapi", "guardian", "bbc", "newsdata">>
AdapterIx == 1..Len(Adapters)
BbcIx == 3
\* self.bbc_feeds
BbcFeeds == 1..3

-----------------------------------------------------------------------------
(* published_at strings.  The adapters copy the provider's timestamp text  *)
(* verbatim; the merge compares these texts as Python strings, that is     *)
(* lexicographically by code point.                                        *)

TwoDigits(n) == <<48 + (n \div 10), 48 + (n % 10)>>

\* 2024-01-01 is a Monday
WeekdayName(d) ==
    CASE d % 7 = 1 -> <<77, 111, 110>>      \* Mon
      [] d % 7 = 2 -> <<84, 117, 101>>      \* Tue
      [] d % 7 = 3 -> <<87, 101, 100>>      \* Wed
      [] d % 7 = 4 -> <<84, 104, 117>>      \* Thu
      [] d % 7 = 5 -> <<70, 114, 105>>      \* Fri
      [] d % 7 = 6 -> <<83, 97, 116>>       \* Sat
      [] OTHER -> <<83, 117, 110>>          \* Sun

\* "2024-01-DDT12:00:00Z": NewsAPI publishedAt, Guardian webPublicationDate
IsoText(d) ==
    <<50, 48, 50, 52, 45, 48, 49, 45>> \o TwoDigits(d)
        \o <<84, 49, 50, 58, 48, 48, 58, 48, 48, 90>>

\* "Www, DD Jan 2024 12:00:00 GMT": RSS pubDate, feedparser's entry.published
RssText(d) ==
    WeekdayName(d) \o <<44, 32>> \o TwoDigits(d)
        \o <<32, 74, 97, 110, 32, 50, 48, 50, 52, 32, 49, 50, 58, 48, 48, 58, 48, 48, 32, 71, 77, 84>>

\* "2024-01-DD 12:00:00": NewsData.io pubDate
NewsDataText(d) ==
    <<50, 48, 50, 52, 45, 48, 49, 45>> \o TwoDigits(d)
        \o <<32, 49, 50, 58, 48, 48, 58, 48, 48>>

Formats == {"iso", "rss", "newsdata"}

Text(p) ==
    CASE p.fmt = "iso" -> IsoText(p.instant)
      [] p.fmt = "rss" -> RssText(p.instant)
      [] OTHER -> NewsDataText(p.instant)

\* Python's str < str
StrLess(s, t) ==
    \E i \in 1..Len(t) :
        /\ \A j \in 1..(i - 1) : j <= Len(s) /\ s[j] = t[j]
        /\ (i > Len(s) \/ s[i] < t[i])

\* the comparison of every two timestamp texts, evaluated once
KeyLessTable ==
    [f \in Formats |-> [d \in Days |-> [g \in Formats |-> [e \in Days |->
        StrLess(Text([fmt |-> f, instant |-> d]), Text([fmt |-> g, instant |-> e]))]]]]

\* x["published_at"] < y["published_at"]
KeyLess(x, y) ==
    KeyLessTable[x.published_at.fmt][x.published_at.instant][y.published_at.fmt][y.published_at.instant]

\* sorted(news, key=lambda x: x["published_at"], reverse=True): stable, so an
\* element is placed after every element whose key is not smaller than its own
InsertDesc(t, x) ==
    LET k == Cardinality({i \in 1..Len(t) : ~KeyLess(t[i], x)})
    IN  SubSeq(t, 1, k) \o <<x>> \o SubSeq(t, k + 1, Len(t))

RECURSIVE SortedDesc(_)
SortedDesc(s) ==
    IF s = <<>> THEN <<>>
    ELSE InsertDesc(SortedDesc(SubSeq(s, 1, Len(s) - 1)), s[Len(s)])

\* s[:n] for n >= 0
Take(s, n) == SubSeq(s, 1, Min(n, Len(s)))

\* s[a:b] for 0 <= a <= b
Slice(s, a, b) == SubSeq(s, a + 1, Min(b, Len(s)))

-----------------------------------------------------------------------------
(* What a provider delivers: n items, newest first, two per day going     *)
(* back from day MaxDay - offset and no further than day 1; the u-th feed  *)
(* starts at offset u - 1.                                                 *)

DayOf(offset, i) == Max(1, MaxDay - offset - ((i - 1) \div 2))

Delivery(n, offset) == [i \in 1..n |-> DayOf(offset, i)]

\* an adapter's environment: did the fetch raise, and what came back;
\* feeds is one delivery per configured feed URL, used by the BBC adapter only
NoEnv == [raised |-> FALSE, n |-> 0, feeds |-> <<0, 0, 0>>]

ApiEnvs ==
    {[raised |-> r, n |-> n, feeds |-> <<0, 0, 0>>] : r \in BOOLEAN, n \in Counts}

FeedEnvs ==
    {[raised |-> r, n |-> 0, feeds |-> <<a, b, c>>] :
        r \in BOOLEAN, a \in FeedCounts, b \in FeedCounts, c \in FeedCounts}

\* a fetch that raised left no response behind
Canonical(e) == e.raised => (e.n = 0 /\ e.feeds = <<0, 0, 0>>)

EnvsOf(a) ==
    {e \in (IF a = BbcIx THEN FeedEnvs ELSE ApiEnvs) : Canonical(e)}

-----------------------------------------------------------------------------
(* The adapters *)

Article(src, url, fmt, d) ==
    [source |-> src, url |-> url, published_at |-> [fmt |-> fmt, instant |-> d]]

\* get_newsapi_news: the provider honours page_size
get_newsapi_news(e, lim) ==
    IF e.raised THEN <<>>
    ELSE LET articles == Delivery(Min(e.n, lim), 0)
         IN  [i \in 1..Len(articles) |->
                 Article(IF i % 2 = 1 THEN "NewsAPI - Outlet1" ELSE "NewsAPI - Outlet2",
                         <<"newsapi", i>>, "iso", articles[i])]

\* get_guardian_news: the provider honours page-size
get_guardian_news(e, lim) ==
    IF e.raised THEN <<>>
    ELSE LET articles == Delivery(Min(e.n, lim), 0)
         IN  [i \in 1..Len(articles) |->
                 Article("The Guardian", <<"guardian", i>>, "iso", articles[i])]

\* the entries of one feed URL after feed.entries[:limit]
BbcFeedArticles(e, u, lim) ==
    LET entries == Take(Delivery(e.feeds[u], u - 1), lim)
    IN  [i \in 1..Len(entries) |->
            Article("BBC News", <<"bbc", u, i>>, "rss", entries[i])]

\* get_bbc_news: per feed entries[:limit], extended onto all_articles in feed order
get_bbc_news(e, lim) ==
    IF e.raised THEN <<>>
    ELSE BbcFeedArticles(e, 1, lim) \o BbcFeedArticles(e, 2, lim) \o BbcFeedArticles(e, 3, lim)

\* get_newsdata_news: the request carries no size; a non-success status is the raised case
get_newsdata_news(e, lim) ==
    IF e.raised THEN <<>>
    ELSE LET articles == Delivery(e.n, 0)
         IN  [i \in 1..Len(articles) |->
                 Article(IF i % 2 = 1 THEN "NewsData.io - src1" ELSE "NewsData.io - src2",
                         <<"newsdata", i>>, "newsdata", articles[i])]

RunAdapter(a, e, lim) ==
    CASE a = 1 -> get_newsapi_news(e, lim)
      [] a = 2 -> get_guardian_news(e, lim)
      [] a = 3 -> get_bbc_news(e, lim)
      [] OTHER -> get_newsdata_news(e, lim)

-----------------------------------------------------------------------------
(* The limit computations *)

\* main.py line 29
EndpointClamp(l) == Max(EndpointFloor, Min(l, EndpointCeiling))

\* variants of line 149: the ceiling forgotten, the floor forgotten
AggregatorClampNoCeiling(l) == Max(AggregatorFloor, l)
AggregatorClampNoFloor(l) == Min(l, AggregatorCeiling)

\* news.py line 149
AggregatorClamp(l) == Max(AggregatorFloor, Min(l, AggregatorCeiling))

\* news.py line 152
PerSourceLimit(l) == (l \div SourceDivisor) + OverFetch

-----------------------------------------------------------------------------
(* dict operations on <<key, value>> pairs kept in insertion order *)

DictHas(d, k) == \E i \in 1..Len(d) : d[i][1] = k

DictSet(d, k, v) ==
    IF DictHas(d, k)
    THEN [i \in 1..Len(d) |-> IF d[i][1] = k THEN <<k, v>> ELSE d[i]]
    ELSE Append(d, <<k, v>>)

\* lines 163-168: the loop over results
RECURSIVE GroupBySource(_, _)
GroupBySource(rs, d) ==
    IF rs = <<>> THEN d
    ELSE LET source_news == Head(rs)
         IN  GroupBySource(Tail(rs),
                 IF source_news # <<>>
                 THEN DictSet(d, source_news[1].source, source_news)
                 ELSE d)

\* variant of lines 176-178: a source with fewer than min_per_source articles is passed over
RECURSIVE GuaranteePassSkipShort(_, _)
GuaranteePassSkipShort(d, acc) ==
    IF d = <<>> THEN acc
    ELSE GuaranteePassSkipShort(Tail(d),
             IF Len(Head(d)[2]) < MIN_PER_SOURCE THEN acc
             ELSE acc \o Take(SortedDesc(Head(d)[2]), MIN_PER_SOURCE))

\* lines 176-178: the guarantee pass
RECURSIVE GuaranteePass(_, _)
GuaranteePass(d, acc) ==
    IF d = <<>> THEN acc
    ELSE GuaranteePass(Tail(d), acc \o Take(SortedDesc(Head(d)[2]), MIN_PER_SOURCE))

\* lines 185-189: the loop of the fill pass
RECURSIVE FillLoop(_, _, _)
FillLoop(d, additional, acc) ==
    IF d = <<>> THEN acc
    ELSE FillLoop(Tail(d), additional,
             acc \o Slice(SortedDesc(Head(d)[2]), MIN_PER_SOURCE, MIN_PER_SOURCE + additional))

\* lines 181-189
FillPass(d, lim, acc) ==
    LET remaining_slots == lim - Len(acc)
    IN  IF remaining_slots > 0
        THEN LET additional_per_source == remaining_slots \div Len(d)
             IN  IF additional_per_source > 0 THEN FillLoop(d, additional_per_source, acc)
                 ELSE acc
        ELSE acc

\* variant of gather: results collected as the tasks complete (asyncio.as_completed)
GatherStoreAsCompleted(rs, a, r) ==
    IF r = <<>> THEN rs
    ELSE LET free == {i \in 1..Len(rs) : rs[i] = <<>>}
             slot == CHOOSE i \in free : \A j \in free : i <= j
         IN  [rs EXCEPT ![slot] = r]

\* asyncio.gather: a task's result goes to the task's position in the list
GatherStore(rs, a, r) == [rs EXCEPT ![a] = r]

\* variant of gather: resolves with the first task done (asyncio.wait FIRST_COMPLETED)
GatherReadyFirstCompleted(o) == \E a \in AdapterIx : o[a] # "pending"

\* asyncio.gather resolves when every task is done
GatherReady(o) == \A a \in AdapterIx : o[a] # "pending"

-----------------------------------------------------------------------------
(* The state machine *)

Init ==
    /\ entry \in {"endpoint", "aggregator"}
    /\ arg \in Limits
    /\ pc = "idle"
    /\ limit = 0
    /\ per_source_limit = 0
    /\ outcome = [a \in AdapterIx |-> "pending"]
    /\ env = [a \in AdapterIx |-> NoEnv]
    /\ fetched = [a \in AdapterIx |-> <<>>]
    /\ results = [a \in AdapterIx |-> <<>>]
    /\ news_by_source = <<>>
    /\ all_news = <<>>
    /\ ret = <<>>
    /\ overtaken = FALSE

\* main.py lines 26-30 when called through the endpoint, then news.py lines 147-158
Call ==
    /\ pc = "idle"
    /\ LET passed == IF entry = "endpoint" THEN EndpointClamp(arg) ELSE arg
       IN  /\ limit' = AggregatorClamp(passed)
           /\ per_source_limit' = PerSourceLimit(AggregatorClamp(passed))
    /\ pc' = "gather"
    /\ UNCHANGED <<entry, arg, outcome, env, fetched, results, news_by_source, all_news, ret, overtaken>>

\* one adapter task runs to completion; its try/except turns a raise into []
Fetch(a) ==
    /\ pc \notin {"idle"}
    /\ outcome[a] = "pending"
    /\ \E e \in EnvsOf(a) :
        LET r == RunAdapter(a, e, per_source_limit)
        IN  /\ env' = [env EXCEPT ![a] = e]
            /\ outcome' = [outcome EXCEPT ![a] = IF e.raised THEN "caught" ELSE "ok"]
            /\ fetched' = [fetched EXCEPT ![a] = r]
            /\ results' = GatherStore(results, a, r)
    /\ overtaken' = (overtaken \/ \E b \in AdapterIx : b > a /\ outcome[b] # "pending")
    /\ UNCHANGED <<entry, arg, pc, limit, per_source_limit, news_by_source, all_news, ret>>

\* line 160 resumes, lines 162-173: grouping, then limit // len(news_by_source)
Group ==
    /\ pc = "gather"
    /\ GatherReady(outcome)
    /\ LET d == GroupBySource(results, <<>>)
       IN  /\ news_by_source' = d
           /\ pc' = IF Len(d) = 0 THEN "ZeroDivisionError" ELSE "guarantee"
    /\ UNCHANGED <<entry, arg, limit, per_source_limit, outcome, env, fetched, results, all_news, ret, overtaken>>

\* lines 175-178
Guarantee ==
    /\ pc = "guarantee"
    /\ all_news' = GuaranteePass(news_by_source, all_news)
    /\ pc' = "fill"
    /\ UNCHANGED <<entry, arg, limit, per_source_limit, outcome, env, fetched, results, news_by_source, ret, overtaken>>

\* lines 180-189
Fill ==
    /\ pc = "fill"
    /\ all_news' = FillPass(news_by_source, limit, all_news)
    /\ pc' = "sort"
    /\ UNCHANGED <<entry, arg, limit, per_source_limit, outcome, env, fetched, results, news_by_source, ret, overtaken>>

\* lines 191-199
SortAndReturn ==
    /\ pc = "sort"
    /\ all_news' = SortedDesc(all_news)
    /\ ret' = Take(all_news', limit)
    /\ pc' = "done"
    /\ UNCHANGED <<entry, arg, limit, per_source_limit, outcome, env, fetched, results, news_by_source, overtaken>>

Next ==
    \/ Call
    \/ \E a \in AdapterIx : Fetch(a)
    \/ Group
    \/ Guarantee
    \/ Fill
    \/ SortAndReturn

Spec == Init /\ [][Next]_vars

-----------------------------------------------------------------------------
(* Vocabulary of the properties *)

Range(s) == {s[i] : i \in 1..Len(s)}

Instant(x) == x.published_at.instant

\* adjacent pairs in non-increasing order of publication instant
ChronologicalDesc(s) ==
    \A i \in 1..(Len(s) - 1) : Instant(s[i]) >= Instant(s[i + 1])

\* the articles of s that adapter a returned
FromAdapter(s, a) == {x \in Range(s) : x.url[1] = Adapters[a]}

Present == {a \in AdapterIx : fetched[a] # <<>>}

AllEmpty == \A a \in AdapterIx : outcome[a] # "pending" /\ fetched[a] = <<>>

PastGather == pc \notin {"idle", "gather"}

\* G: what the guarantee pass takes over the present sources
GuaranteeTotal ==
    Min(MIN_PER_SOURCE, Len(fetched[1])) + Min(MIN_PER_SOURCE, Len(fetched[2]))
        + Min(MIN_PER_SOURCE, Len(fetched[3])) + Min(MIN_PER_SOURCE, Len(fetched[4]))

\* a: the fill quota per source
FillQuota ==
    IF limit - GuaranteeTotal > 0 /\ Present # {}
    THEN (limit - GuaranteeTotal) \div Cardinality(Present)
    ELSE 0

\* the merge as a function of the adapters' return values, taken in task order
MergeOf(f, l) ==
    LET d == GroupBySource(<<f[1], f[2], f[3], f[4]>>, <<>>)
    IN  Take(SortedDesc(FillPass(d, l, GuaranteePass(d, <<>>))), l)

\* every entry of every configured feed, before any truncation
AllFeedEntries(e) ==
    UNION {{[u |-> u, i |-> i, instant |-> DayOf(u - 1, i)] : i \in 1..e.feeds[u]} :
               u \in BbcFeeds}

-----------------------------------------------------------------------------
(* Properties *)

\* C1: when every adapter returns an empty list, get_latest_news completes
\* and returns an empty list; it does not end in an error.
C1_AllEmptyReturnsEmpty ==
    (AllEmpty /\ PastGather) => (pc = "done" /\ ret = <<>>)

\* C2 as stated: the returned list has at most as many articles as the
\* caller's limit argument.
C2_AtMostCallerLimit ==
    pc = "done" => Len(ret) <= arg

\* C2 as amended: the returned list has at most max(20, min(limit, 30))
\* articles, limit being the caller's argument; hence at most limit
\* articles whenever limit >= 20.
C2_AtMostClampedLimit ==
    pc = "done" =>
        /\ Len(ret) <= Max(AggregatorFloor, Min(arg, AggregatorCeiling))
        /\ (arg >= AggregatorFloor => Len(ret) <= arg)

\* a call with a limit below the floor that returns a full floor of articles
C2_Witness ==
    /\ pc = "done"
    /\ arg < AggregatorFloor
    /\ Len(ret) = AggregatorFloor

\* C3: the returned list is in descending order of publication instant,
\* whichever providers and timestamp formats its articles come from.
C3_SortedByInstant ==
    pc = "done" => ChronologicalDesc(ret)

\* C4: a source that returns N articles, 1 <= N <= 5, has all N of them in
\* the returned list whenever the guarantee pass fits into the limit.
C4_SmallSourceKept ==
    pc = "done" =>
        \A a \in AdapterIx :
            (/\ Len(fetched[a]) >= 1
             /\ Len(fetched[a]) <= MIN_PER_SOURCE
             /\ GuaranteeTotal <= limit)
                => Range(fetched[a]) \subseteq Range(ret)

\* a short source merged with three long ones
C4_Witness ==
    /\ pc = "done"
    /\ \E a \in AdapterIx :
        /\ Len(fetched[a]) = SmallCount
        /\ Range(fetched[a]) \subseteq Range(ret)
        /\ \A b \in AdapterIx \ {a} : Len(fetched[b]) > MIN_PER_SOURCE

\* C5: from each present source exactly its min(count, 5 + a) most recent
\* articles are selected, and the returned list is their union in
\* descending publication order cut to limit; sources returning 10, 3 and
\* 20 articles with limit 20 give 17 articles.
C5_TwoPassQuota ==
    pc = "done" =>
        /\ \A a \in AdapterIx :
            /\ Cardinality(FromAdapter(ret, a)) =
                   Min(Len(fetched[a]), MIN_PER_SOURCE + FillQuota)
            /\ \A x \in FromAdapter(ret, a) :
                   \A y \in Range(fetched[a]) \ FromAdapter(ret, a) :
                       Instant(x) >= Instant(y)
        /\ ChronologicalDesc(ret)
        /\ Len(ret) <= limit
        /\ (/\ limit = 20
            /\ Len(fetched[1]) = 10 /\ Len(fetched[2]) = 3
            /\ Len(fetched[3]) = 20 /\ Len(fetched[4]) = 0) => Len(ret) = 17

\* C6: an adapter whose fetch fails returns an empty list, and the call
\* still returns the merge of what the other adapters returned: no adapter
\* failure aborts the batch.
C6_FaultIsolation ==
    \A a \in AdapterIx :
        outcome[a] = "caught" =>
            /\ fetched[a] = <<>>
            /\ pc # "ZeroDivisionError"
            /\ pc = "done" => ret = MergeOf(fetched, limit)

\* C7: the grouping and merge start only after all four adapter tasks have
\* completed, and nothing is returned while an adapter is still running.
C7_JoinAll ==
    PastGather => \A a \in AdapterIx : outcome[a] # "pending"

\* the merge under way with all four tasks completed
C7_Witness ==
    /\ pc = "guarantee"
    /\ \A a \in AdapterIx : outcome[a] # "pending"
    /\ \E a \in AdapterIx : outcome[a] = "caught"
    /\ \E a \in AdapterIx : outcome[a] = "ok"

\* C8: the returned list is a function of the lists the adapters returned
\* and of limit alone, whatever the order in which the adapters completed.
C8_OrderIndependent ==
    pc = "done" => ret = MergeOf(fetched, limit)

\* a result in which articles of two adapters carry the same timestamp
\* text, returned after the adapters completed out of task order
C8_Witness ==
    /\ pc = "done"
    /\ overtaken
    /\ \E i \in 1..Len(ret) : \E j \in 1..Len(ret) :
        /\ ret[i].url[1] # ret[j].url[1]
        /\ ret[i].published_at = ret[j].published_at

\* C9: get_bbc_news(limit) returns at most limit articles, sorted by
\* publication time descending, and they are the most recent entries of
\* all feeds taken together.
C9_BbcSortedTruncated ==
    (outcome[BbcIx] = "ok" /\ per_source_limit > 0) =>
        LET out == fetched[BbcIx]
            all == AllFeedEntries(env[BbcIx])
            kept == {e \in all : \E x \in Range(out) : x.url = <<"bbc", e.u, e.i>>}
        IN  /\ Len(out) <= per_source_limit
            /\ Len(out) = Min(per_source_limit, Cardinality(all))
            /\ ChronologicalDesc(out)
            /\ \A e \in kept : \A o \in all \ kept : e.instant >= o.instant

\* C10: the accumulator never holds more than the clamped limit, after the
\* guarantee pass and after the fill pass, so the final truncation removes
\* nothing and every guaranteed article is returned.
C10_AccumulatorWithinLimit ==
    /\ pc \in {"fill", "sort"} => Len(all_news) <= limit
    /\ pc = "fill" => limit - Len(all_news) >= 0
    /\ pc = "done" =>
        /\ ret = all_news
        /\ \A k \in 1..Len(news_by_source) :
               Range(Take(SortedDesc(news_by_source[k][2]), MIN_PER_SOURCE)) \subseteq Range(ret)

\* the guarantee pass alone fills the limit exactly
C10_Witness ==
    /\ pc = "fill"
    /\ Len(news_by_source) = 4
    /\ Len(all_news) = limit

====
